---- MODULE Spec2Model ----
(***************************************************************************)
(* Recurrence handling of device-gateway-ui.                               *)
(*                                                                         *)
(*   SimpleRecurrenceSelector  config -> rule string + preview of 5 runs   *)
(*   ScheduleCalendar          stored rule string -> calendar events       *)
(*   ScheduleForm, SchedulerPage   saves to the Schedule Store             *)
(*   RecurrenceSelector        presets and the preview of the store        *)
(*   ConfigPage                editor of the two config files              *)
(*   useEnvironmentInfo        polled environment information              *)
(*                                                                         *)
(* Strings are sequences of one-character strings, so that includes(),     *)
(* split(), match(), template literals and parseInt() are computed on the  *)
(* characters.  A Date is its time value in minutes since local midnight   *)
(* of 1 January EpochYear (NaN for an Invalid Date); the local zone has no *)
(* daylight-saving transitions.  The clock is read to the minute: a slot   *)
(* has zero seconds, so a reading inside a minute compares with every slot *)
(* as the start of the next minute does.                                   *)
(***************************************************************************)
EXTENDS Integers, Sequences, FiniteSets, TLC

VARIABLES
    now,        \* the ambient clock read by new Date() / Date.now()
    startDate,  \* ScheduleForm's startDate, prop of the selector
    config,     \* SimpleRecurrenceSelector: RecurrenceConfig state
    preview,    \* SimpleRecurrenceSelector: preview state
    rrule,      \* the value last handed to onChange (formData.rrule)
    store,      \* the schedules held by the Schedule Store (the server)
    schedules,  \* ScheduleCalendar: schedules state
    events,     \* ScheduleCalendar: events state
    loading,    \* ScheduleCalendar: loading state
    localZone,  \* the time zone of the runtime the code executes in
    formData,   \* ScheduleForm: formData state (its rrule is the variable rrule)
    saving,     \* ScheduleForm: saving state
    pending,    \* the Schedule Store calls of the form that are in flight
    selectedSchedule,  \* SchedulerPage: selectedSchedule state, <<>> for null
    isFormOpen,        \* SchedulerPage: isFormOpen state
    calendarKey,       \* SchedulerPage: calendarKey state
    value,           \* RecurrenceSelector: the value prop, set by onChange
    presets,         \* RecurrenceSelector: presets state
    selectedPreset,  \* RecurrenceSelector: selectedPreset state
    customRRule,     \* RecurrenceSelector: customRRule state
    isCustom,        \* RecurrenceSelector: isCustom state
    storePreview,    \* RecurrenceSelector: preview state, <<>> for null
    presetsLoading,  \* RecurrenceSelector: loading state
    presetsCall,     \* whether the getPresets request is in flight
    previewCalls,    \* the previewRRule requests in flight
    configPage,        \* ConfigPage: activeTab, content, originalContent,
                       \* loading and saving state
    configCalls,       \* the config file requests of ConfigPage in flight
    configFiles,       \* the two files held by the device gateway
    environment,       \* useEnvironmentInfo: environmentInfo, loading, error
    environmentCalls   \* the getEnvironmentInfo requests, in starting order

vars ==
    <<now, startDate, config, preview, rrule, store, schedules, events,
      loading, localZone, formData, saving, pending, selectedSchedule,
      isFormOpen, calendarKey, value, presets, selectedPreset, customRRule,
      isCustom, storePreview, presetsLoading, presetsCall, previewCalls,
      configPage, configCalls, configFiles, environment, environmentCalls>>
selectorVars == <<startDate, config, preview, rrule>>
calendarVars == <<store, schedules, events, loading>>
formVars == <<formData, saving, pending>>
pageVars == <<selectedSchedule, isFormOpen, calendarKey>>
recurrenceVars ==
    <<value, presets, selectedPreset, customRRule, isCustom, storePreview,
      presetsLoading, presetsCall, previewCalls>>
ambientVars ==
    <<localZone, recurrenceVars, configPage, configCalls, configFiles,
      environment, environmentCalls>>
hostVars == <<ambientVars, formVars, pageVars>>

----------------------------------------------------------------------------
(* Bounds                                                                  *)

MaxNowDays == 7        \* the clock ranges over FirstNowDay .. FirstNowDay + MaxNowDays
MaxStartDays == 2      \* the form is opened on FirstNowDay .. FirstNowDay + MaxStartDays
MaxSchedules == 2      \* schedules in one getSchedules response

----------------------------------------------------------------------------
(* JavaScript values                                                       *)

Undefined == -1
NaN == -2

Digits == <<"0", "1", "2", "3", "4", "5", "6", "7", "8", "9">>
IsDigit(c) == \E k \in 1..10 : Digits[k] = c
DigitVal(c) == (CHOOSE k \in 1..10 : Digits[k] = c) - 1

\* String(n) of a template literal, for an integer n >= 0
RECURSIVE NumberToString(_)
NumberToString(n) ==
    IF n < 10 THEN <<Digits[n + 1]>>
    ELSE NumberToString(n \div 10) \o <<Digits[(n % 10) + 1]>>

\* value of a string of digits
RECURSIVE DigitsValue(_)
DigitsValue(s) ==
    IF s = <<>> THEN 0
    ELSE 10 * DigitsValue(SubSeq(s, 1, Len(s) - 1)) + DigitVal(s[Len(s)])

\* Number(s): the empty string is 0, a string of digits its value, else NaN
Number(s) ==
    IF s = <<>> THEN 0
    ELSE IF \A k \in 1..Len(s) : IsDigit(s[k]) THEN DigitsValue(s)
    ELSE NaN

\* s.includes(sub)
Includes(s, sub) ==
    \E k \in 0..(Len(s) - Len(sub)) : SubSeq(s, k + 1, k + Len(sub)) = sub

\* s.split(sep) for a one-character separator
RECURSIVE Split(_, _)
Split(s, sep) ==
    IF \A k \in 1..Len(s) : s[k] # sep THEN <<s>>
    ELSE LET p == CHOOSE k \in 1..Len(s) :
                      s[k] = sep /\ \A j \in 1..(k - 1) : s[j] # sep
         IN  <<SubSeq(s, 1, p - 1)>> \o Split(SubSeq(s, p + 1, Len(s)), sep)

\* the longest prefix of s whose characters all satisfy: in cls (a set of
\* characters) when pos, not in cls when ~pos
RECURSIVE Run(_, _, _)
Run(s, cls, pos) ==
    IF s = <<>> \/ ((s[1] \in cls) # pos) THEN <<>>
    ELSE <<s[1]>> \o Run(Tail(s), cls, pos)

\* s.match(/<key>(<class>+)/): the capture group of the leftmost match, or
\* <<>> (standing for null; a capture is never empty) when nothing matches
Match(s, key, cls, pos) ==
    LET hits == {k \in 0..(Len(s) - Len(key)) :
                    /\ SubSeq(s, k + 1, k + Len(key)) = key
                    /\ Run(SubSeq(s, k + Len(key) + 1, Len(s)), cls, pos) # <<>>}
    IN  IF hits = {} THEN <<>>
        ELSE LET k == CHOOSE h \in hits : \A g \in hits : h <= g
             IN  Run(SubSeq(s, k + Len(key) + 1, Len(s)), cls, pos)

----------------------------------------------------------------------------
(* Date                                                                    *)

EpochYear == 2024          \* 1 January 2024 is day 0 of the model's time line
EpochWeekday == 1          \* and a Monday
MinutesPerDay == 1440

IsLeap(y) == (y % 4 = 0 /\ y % 100 # 0) \/ y % 400 = 0
DaysInMonth(y, m) ==
    IF m = 1 THEN (IF IsLeap(y) THEN 29 ELSE 28)
    ELSE IF m \in {3, 5, 8, 10} THEN 30 ELSE 31

RECURSIVE DaysBeforeYear(_)
DaysBeforeYear(y) ==
    IF y <= EpochYear THEN 0
    ELSE DaysBeforeYear(y - 1) + (IF IsLeap(y - 1) THEN 366 ELSE 365)

RECURSIVE DaysBeforeMonth(_, _)
DaysBeforeMonth(y, m) ==
    IF m = 0 THEN 0 ELSE DaysBeforeMonth(y, m - 1) + DaysInMonth(y, m - 1)

\* the calendar of the years EpochYear .. EpochYear + CalendarYears - 1,
\* tabulated once: the day on which each month starts, and the year and
\* month of each day
CalendarYears == 3
MonthStart ==
    [k \in 0..(12 * CalendarYears) |->
        DaysBeforeYear(EpochYear + (k \div 12))
        + DaysBeforeMonth(EpochYear + (k \div 12), k % 12)]
MonthIndexOfDay ==
    [day \in 0..(MonthStart[12 * CalendarYears] - 1) |->
        CHOOSE k \in 0..(12 * CalendarYears - 1) :
            MonthStart[k] <= day /\ day < MonthStart[k + 1]]

\* ECMAScript MakeDay(year, month, date): month may exceed 11 and date may
\* exceed the length of the month; both carry over
MakeDay(y, m, d) == MonthStart[(y - EpochYear) * 12 + m] + d - 1

DayOf(t) == t \div MinutesPerDay
TimeWithinDay(t) == t % MinutesPerDay

getFullYear(t) == EpochYear + (MonthIndexOfDay[DayOf(t)] \div 12)
getMonth(t) == MonthIndexOfDay[DayOf(t)] % 12
getDate(t) == DayOf(t) - MonthStart[MonthIndexOfDay[DayOf(t)]] + 1
getDay(t) == (DayOf(t) + EpochWeekday) % 7
getHours(t) == TimeWithinDay(t) \div 60
getMinutes(t) == TimeWithinDay(t) % 60

\* new Date(y, m, d, h, mi)
MakeDate(y, m, d, h, mi) == MakeDay(y, m, d) * MinutesPerDay + h * 60 + mi

\* d.setHours(hours, minutes, 0, 0): NaN when an argument is not a number
setHours(t, hours, minutes) ==
    IF t = NaN \/ hours \in {NaN, Undefined} \/ minutes \in {NaN, Undefined}
    THEN NaN
    ELSE DayOf(t) * MinutesPerDay + hours * 60 + minutes

\* d.setDate(date)
setDate(t, date) ==
    IF t = NaN THEN NaN
    ELSE MakeDay(getFullYear(t), getMonth(t), date) * MinutesPerDay
         + TimeWithinDay(t)

\* d.setMonth(month): keeps the day of the month, which carries over when the
\* month is shorter
setMonth(t, month) ==
    IF t = NaN THEN NaN
    ELSE MakeDay(getFullYear(t), month, getDate(t)) * MinutesPerDay
         + TimeWithinDay(t)

\* a <= b on Dates: false when either is invalid
DateLeq(a, b) == a # NaN /\ b # NaN /\ a <= b

\* d.toLocaleString(): the local calendar fields the string shows
toLocaleString(t) ==
    IF t = NaN
    THEN [year |-> NaN, month |-> NaN, day |-> NaN, hour |-> NaN,
          minute |-> NaN]
    ELSE [year |-> getFullYear(t), month |-> getMonth(t) + 1,
          day |-> getDate(t), hour |-> getHours(t), minute |-> getMinutes(t)]

----------------------------------------------------------------------------
(* String literals of the source                                           *)

EmptyString == <<>>
STR_FREQ_DAILY == <<"F", "R", "E", "Q", "=", "D", "A", "I", "L", "Y">>
STR_FREQ_WEEKLY == <<"F", "R", "E", "Q", "=", "W", "E", "E", "K", "L", "Y">>
STR_FREQ_MONTHLY == <<"F", "R", "E", "Q", "=", "M", "O", "N", "T", "H", "L", "Y">>
STR_WEEKDAYS_RULE == <<"F", "R", "E", "Q", "=", "D", "A", "I", "L", "Y", ";", "B", "Y", "D", "A", "Y", "=", "M", "O", ",", "T", "U", ",", "W", "E", ",", "T", "H", ",", "F", "R">>
STR_WEEKLY_PREFIX == <<"F", "R", "E", "Q", "=", "W", "E", "E", "K", "L", "Y", ";", "B", "Y", "D", "A", "Y", "=">>
STR_MONTHLY_PREFIX == <<"F", "R", "E", "Q", "=", "M", "O", "N", "T", "H", "L", "Y", ";", "B", "Y", "M", "O", "N", "T", "H", "D", "A", "Y", "=">>
STR_BYDAY == <<"B", "Y", "D", "A", "Y", "=">>
STR_BYMONTHDAY == <<"B", "Y", "M", "O", "N", "T", "H", "D", "A", "Y", "=">>
STR_NO_SCHEDULE == <<"(", "N", "o", " ", "S", "c", "h", "e", "d", "u", "l", "e", ")">>
STR_ASIA_TOKYO == <<"A", "s", "i", "a", "/", "T", "o", "k", "y", "o">>
STR_UTC == <<"U", "T", "C">>
STR_FAILED_TO_VALIDATE == <<"F", "a", "i", "l", "e", "d", " ", "t", "o", " ", "v", "a", "l", "i", "d", "a", "t", "e", " ", "r", "e", "c", "u", "r", "r", "e", "n", "c", "e", " ", "r", "u", "l", "e">>
\* a dayNames that starts the week on Monday
dayNamesMondayFirst ==
    <<<<"M", "O">>, <<"T", "U">>, <<"W", "E">>, <<"T", "H">>, <<"F", "R">>, <<"S", "A">>, <<"S", "U">>>>
dayNames == <<<<"S", "U">>, <<"M", "O">>, <<"T", "U">>, <<"W", "E">>, <<"T", "H">>, <<"F", "R">>, <<"S", "A">>>>

----------------------------------------------------------------------------
(* SimpleRecurrenceSelector                                                *)

RecurrenceTypes == {"none", "daily", "weekdays", "weekly", "monthly"}

\* values of the <input type="time">: "HH:MM", or "" when it is cleared
Times == {<<"0", "9", ":", "0", "0">>, <<"0", "0", ":", "0", "0">>, EmptyString}

\* a ?? b
Coalesce(a, b) == IF a = Undefined THEN b ELSE a

\* a weekday test that takes Saturday for a business day
RECURSIVE WeekdaysLoopSaturday(_, _, _)
WeekdaysLoopSaturday(currentDate, daysAdded, i) ==
    IF ~(daysAdded <= i) THEN Undefined
    ELSE IF getDay(currentDate) >= 1 /\ getDay(currentDate) <= 6
         THEN IF daysAdded = i THEN currentDate
              ELSE WeekdaysLoopSaturday(
                       setDate(currentDate, getDate(currentDate) + 1),
                       daysAdded + 1, i)
         ELSE WeekdaysLoopSaturday(
                  setDate(currentDate, getDate(currentDate) + 1), daysAdded, i)

\* the while loop of the 'weekdays' case: the value of currentDate at the
\* break, or Undefined when the loop ends without reaching it
RECURSIVE WeekdaysLoop(_, _, _)
WeekdaysLoop(currentDate, daysAdded, i) ==
    IF ~(daysAdded <= i) THEN Undefined
    ELSE IF getDay(currentDate) >= 1 /\ getDay(currentDate) <= 5
         THEN IF daysAdded = i THEN currentDate
              ELSE WeekdaysLoop(setDate(currentDate, getDate(currentDate) + 1),
                                daysAdded + 1, i)
         ELSE WeekdaysLoop(setDate(currentDate, getDate(currentDate) + 1),
                           daysAdded, i)

LoopBudget == 10   \* iterations of the while loop that are followed

\* a while loop that moves to the next day only after a business day
RECURSIVE WeekdaysLoopStepsStuck(_, _, _, _)
WeekdaysLoopStepsStuck(currentDate, daysAdded, i, steps) ==
    IF steps > LoopBudget THEN Undefined
    ELSE IF ~(daysAdded <= i) THEN steps
    ELSE IF getDay(currentDate) >= 1 /\ getDay(currentDate) <= 5
         THEN IF daysAdded = i THEN steps
              ELSE WeekdaysLoopStepsStuck(
                       setDate(currentDate, getDate(currentDate) + 1),
                       daysAdded + 1, i, steps + 1)
         ELSE WeekdaysLoopStepsStuck(currentDate, daysAdded, i, steps + 1)

\* the while loop of the 'weekdays' case, counting the executions of
\* currentDate.setDate(currentDate.getDate() + 1): the count at the exit of
\* the loop, or Undefined while it is still running after LoopBudget of them
RECURSIVE WeekdaysLoopSteps(_, _, _, _)
WeekdaysLoopSteps(currentDate, daysAdded, i, steps) ==
    IF steps > LoopBudget THEN Undefined
    ELSE IF ~(daysAdded <= i) THEN steps
    ELSE IF getDay(currentDate) >= 1 /\ getDay(currentDate) <= 5
         THEN IF daysAdded = i THEN steps
              ELSE WeekdaysLoopSteps(
                       setDate(currentDate, getDate(currentDate) + 1),
                       daysAdded + 1, i, steps + 1)
         ELSE WeekdaysLoopSteps(
                  setDate(currentDate, getDate(currentDate) + 1),
                  daysAdded, i, steps + 1)

\* a slot test that lets a slot equal to "now" count as still ahead
SlotPassedStrict(nextDate, nw) == DateLeq(nextDate, nw) /\ nextDate # nw

\* the slot test of the code, nextDate <= now
SlotPassed(nextDate, nw) == DateLeq(nextDate, nw)

\* the day steps spent on index i of the 'weekdays' case: the step of
\* line 96 when the slot has passed, then those of the loop
WeekdaysDaySteps(hours, minutes, nw, i) ==
    LET passed == SlotPassed(setHours(nw, hours, minutes), nw)
        currentDate == IF passed THEN setDate(nw, getDate(nw) + 1) ELSE nw
    IN  WeekdaysLoopSteps(currentDate, 0, i, IF passed THEN 1 ELSE 0)

\* a day count that forgets the move to the following week
daysUntilTargetSameWeek(targetDay, nw, passed) == (targetDay - getDay(nw) + 7) % 7

\* let daysUntilTarget = (targetDay - now.getDay() + 7) % 7;
\* if (daysUntilTarget === 0 && nextDate <= now) daysUntilTarget = 7;
daysUntilTarget(targetDay, nw, passed) ==
    LET delta == (targetDay - getDay(nw) + 7) % 7
    IN  IF delta = 0 /\ passed THEN 7 ELSE delta

\* one iteration of the for loop of generatePreviewDates: the value of
\* nextDate that is pushed for index i
PreviewDate(type, hours, minutes, dayOfWeek, dayOfMonth, nw, i) ==
    LET nextDate == setHours(nw, hours, minutes)
        passed == SlotPassed(nextDate, nw)
    IN  CASE type = "daily" ->
               setDate(nextDate, getDate(nw) + i + (IF passed THEN 1 ELSE 0))
          [] type = "weekdays" ->
               LET currentDate == IF passed THEN setDate(nw, getDate(nw) + 1)
                                  ELSE nw
                   found == WeekdaysLoop(currentDate, 0, i)
               IN  IF found = Undefined THEN nextDate
                   ELSE setHours(found, hours, minutes)
          [] type = "weekly" ->
               LET targetDay == Coalesce(dayOfWeek, 1)
               IN  setDate(nextDate,
                           getDate(nw) + daysUntilTarget(targetDay, nw, passed)
                                       + (i * 7))
          [] type = "monthly" ->
               LET targetDayOfMonth == Coalesce(dayOfMonth, 1)
                   moved == setDate(setMonth(nextDate, getMonth(nw) + i),
                                    targetDayOfMonth)
               IN  IF DateLeq(moved, nw) /\ i = 0
                   THEN setMonth(moved, getMonth(moved) + 1)
                   ELSE moved
          [] OTHER -> nextDate

PreviewCount == 5

generatePreviewDates(type, hours, minutes, dayOfWeek, dayOfMonth, nw) ==
    [k \in 1..PreviewCount |->
        toLocaleString(PreviewDate(type, hours, minutes, dayOfWeek,
                                   dayOfMonth, nw, k - 1))]

\* const [hours, minutes] = config.time.split(':').map(Number)
ParseTime(time) ==
    LET parts == Split(time, ":")
    IN  [hours |-> Number(parts[1]),
         minutes |-> IF Len(parts) >= 2 THEN Number(parts[2]) ELSE Undefined]

\* generateRRule: the argument of onChange and the argument of setPreview
generateRRule(cfg, sd, nw) ==
    IF cfg.type = "none" THEN [rrule |-> EmptyString, preview |-> <<>>]
    ELSE
    LET hm == ParseTime(cfg.time)
    IN  CASE cfg.type = "daily" ->
               [rrule |-> STR_FREQ_DAILY,
                preview |-> generatePreviewDates("daily", hm.hours, hm.minutes,
                                                 Undefined, Undefined, nw)]
          [] cfg.type = "weekdays" ->
               [rrule |-> STR_WEEKDAYS_RULE,
                preview |-> generatePreviewDates("weekdays", hm.hours,
                                                 hm.minutes, Undefined,
                                                 Undefined, nw)]
          [] cfg.type = "weekly" ->
               LET dayOfWeek == Coalesce(cfg.dayOfWeek, getDay(sd))
               IN  [rrule |-> STR_WEEKLY_PREFIX \o dayNames[dayOfWeek + 1],
                    preview |-> generatePreviewDates("weekly", hm.hours,
                                                     hm.minutes, dayOfWeek,
                                                     Undefined, nw)]
          [] cfg.type = "monthly" ->
               LET dayOfMonth == Coalesce(cfg.dayOfMonth, getDate(sd))
               IN  [rrule |-> STR_MONTHLY_PREFIX \o NumberToString(dayOfMonth),
                    preview |-> generatePreviewDates("monthly", hm.hours,
                                                     hm.minutes, Undefined,
                                                     dayOfMonth, nw)]

\* an effect whose 'none' branch returns without calling onChange and
\* setPreview
ConfigEffectSilentNone(cfg) ==
    \E r \in {generateRRule(cfg, startDate, now)} :
        /\ config' = cfg
        /\ rrule' = IF cfg.type = "none" THEN rrule ELSE r.rrule
        /\ preview' = IF cfg.type = "none" THEN preview ELSE r.preview
        /\ UNCHANGED <<now, startDate, calendarVars, hostVars>>

\* useEffect(() => { generateRRule() }, [config]): runs after every setConfig
ConfigEffect(cfg) ==
    \E r \in {generateRRule(cfg, startDate, now)} :
        /\ config' = cfg
        /\ rrule' = r.rrule
        /\ preview' = r.preview
        /\ UNCHANGED <<now, startDate, calendarVars, hostVars>>

\* a type change that presets Monday and the 1st instead of the start date
handleTypeChangeFixedDefault(type) ==
    /\ type \in RecurrenceTypes
    /\ ConfigEffect([config EXCEPT
           !.type = type,
           !.dayOfWeek = IF type = "weekly" THEN 1 ELSE Undefined,
           !.dayOfMonth = IF type = "monthly" THEN 1 ELSE Undefined])

\* one of the five type buttons is clicked
handleTypeChange(type) ==
    /\ type \in RecurrenceTypes
    /\ ConfigEffect([config EXCEPT
           !.type = type,
           !.dayOfWeek = IF type = "weekly" THEN getDay(startDate)
                         ELSE Undefined,
           !.dayOfMonth = IF type = "monthly" THEN getDate(startDate)
                          ELSE Undefined])

\* the time input is rendered while config.type !== 'none'
handleTimeChange(time) ==
    /\ config.type # "none"
    /\ ConfigEffect([config EXCEPT !.time = time])

\* a day-of-week select that is rendered for every repeating type
selectDayOfWeekAnyType(d) ==
    /\ config.type # "none"
    /\ ConfigEffect([config EXCEPT !.dayOfWeek = d])

\* onChange of the day-of-week select, rendered while the type is 'weekly'
selectDayOfWeek(d) ==
    /\ config.type = "weekly"
    /\ ConfigEffect([config EXCEPT !.dayOfWeek = d])

\* onChange of the day-of-month select, rendered while the type is 'monthly'
selectDayOfMonth(d) ==
    /\ config.type = "monthly"
    /\ ConfigEffect([config EXCEPT !.dayOfMonth = d])

----------------------------------------------------------------------------
(* The clock                                                               *)

FirstNowDay == 24          \* 25 January 2024
Nows ==
    {d * MinutesPerDay + m : d \in FirstNowDay..(FirstNowDay + MaxNowDays),
                             m \in {8 * 60 + 59, 9 * 60, 9 * 60 + 1}}

StartDates ==
    {d * MinutesPerDay + 9 * 60 :
        d \in FirstNowDay..(FirstNowDay + MaxStartDays)} \cap Nows

\* time passes: the clock moves to its next reading
Tick ==
    /\ \E t \in Nows :
          /\ t > now
          /\ \A u \in Nows : u > now => t <= u
          /\ now' = t
    /\ UNCHANGED <<selectorVars, calendarVars, hostVars>>

----------------------------------------------------------------------------
(* Specification of the selector: the form is opened at startDate, the     *)
(* selector mounts with its initial config and its effect runs once        *)

InitialConfig ==
    [type |-> "none", time |-> <<"0", "9", ":", "0", "0">>, dayOfWeek |-> Undefined,
     dayOfMonth |-> Undefined]

\* RecurrenceSelector is not mounted
InitRecurrenceIdle ==
    /\ value = EmptyString
    /\ presets = <<>>
    /\ selectedPreset = ""
    /\ customRRule = EmptyString
    /\ isCustom = FALSE
    /\ storePreview = <<>>
    /\ presetsLoading = TRUE
    /\ presetsCall = FALSE
    /\ previewCalls = <<>>

\* the files as the device gateway holds them at first
STR_CONFIG_YAML == <<"y">>
STR_TOPOLOGY_REQUEST == <<"t">>

\* useState of ConfigPage
InitialConfigPage ==
    [activeTab |-> "yaml", content |-> EmptyString,
     originalContent |-> EmptyString, loading |-> TRUE, saving |-> FALSE]

\* useState of useEnvironmentInfo; <<>> stands for null
InitialEnvironment ==
    [environmentInfo |-> <<>>, loading |-> TRUE, error |-> <<>>]

\* ConfigPage and useEnvironmentInfo are not mounted
InitConsoleIdle ==
    /\ configPage = InitialConfigPage
    /\ configCalls = <<>>
    /\ configFiles = [yaml |-> STR_CONFIG_YAML,
                      topology |-> STR_TOPOLOGY_REQUEST]
    /\ environment = InitialEnvironment
    /\ environmentCalls = <<>>

\* useState of ScheduleForm (description, task_type and status stay as they
\* are initialised and are left out)
InitialFormData ==
    [name |-> EmptyString, timezone |-> STR_ASIA_TOKYO, enabled |-> TRUE]

\* the form as it is after mounting, before any submit
InitForm ==
    /\ formData = InitialFormData
    /\ saving = FALSE
    /\ pending = <<>>

\* useState of SchedulerPage
InitPage ==
    /\ selectedSchedule = <<>>
    /\ isFormOpen = FALSE
    /\ calendarKey = 0

InitCalendar ==
    /\ store = <<>>
    /\ schedules = <<>>
    /\ events = <<>>
    /\ loading = TRUE

InitSelector ==
    /\ now \in Nows
    /\ startDate \in StartDates
    /\ startDate <= now
    /\ config = InitialConfig
    /\ rrule = generateRRule(InitialConfig, startDate, now).rrule
    /\ preview = generateRRule(InitialConfig, startDate, now).preview
    /\ InitCalendar
    /\ localZone = STR_ASIA_TOKYO
    /\ InitConsoleIdle
    /\ InitRecurrenceIdle
    /\ InitForm
    /\ selectedSchedule = <<>>
    /\ isFormOpen = TRUE
    /\ calendarKey = 0

\* the days picked in the day-of-month select: the first, one in the middle
\* and the days that not every month has
DaysOfMonth == {1, 15, 28, 29, 30, 31}

NextSelector ==
    \/ \E type \in RecurrenceTypes : handleTypeChange(type)
    \/ \E time \in Times : handleTimeChange(time)
    \/ \E d \in 0..6 : selectDayOfWeek(d)
    \/ \E d \in DaysOfMonth : selectDayOfMonth(d)
    \/ Tick

SpecSelector == InitSelector /\ [][NextSelector]_vars

----------------------------------------------------------------------------
(* ScheduleCalendar                                                        *)

\* a dayMap that numbers the days from Monday, as iCalendar libraries do
dayMapMondayFirst ==
    (<<"M", "O">> :> 0) @@ (<<"T", "U">> :> 1) @@ (<<"W", "E">> :> 2) @@ (<<"T", "H">> :> 3) @@
    (<<"F", "R">> :> 4) @@ (<<"S", "A">> :> 5) @@ (<<"S", "U">> :> 6)

\* the own properties of the object literal dayMap
dayMap ==
    (<<"S", "U">> :> 0) @@ (<<"M", "O">> :> 1) @@ (<<"T", "U">> :> 2) @@ (<<"W", "E">> :> 3) @@
    (<<"T", "H">> :> 4) @@ (<<"F", "R">> :> 5) @@ (<<"S", "A">> :> 6)

\* names that dayMap, an object literal, inherits from Object.prototype;
\* dayMap[name] is then a function or an object, not undefined
ObjectPrototypeKeys ==
    {<<"c", "o", "n", "s", "t", "r", "u", "c", "t", "o", "r">>, <<"t", "o", "S", "t", "r", "i", "n", "g">>, <<"v", "a", "l", "u", "e", "O", "f">>, <<"h", "a", "s", "O", "w", "n", "P", "r", "o", "p", "e", "r", "t", "y">>,
     <<"i", "s", "P", "r", "o", "t", "o", "t", "y", "p", "e", "O", "f">>, <<"p", "r", "o", "p", "e", "r", "t", "y", "I", "s", "E", "n", "u", "m", "e", "r", "a", "b", "l", "e">>, <<"t", "o", "L", "o", "c", "a", "l", "e", "S", "t", "r", "i", "n", "g">>, <<"_", "_", "p", "r", "o", "t", "o", "_", "_">>}
InheritedProperty == -3

\* dayMap[day]
DayMapLookup(day) ==
    IF day \in DOMAIN dayMap THEN dayMap[day]
    ELSE IF day \in ObjectPrototypeKeys THEN InheritedProperty
    ELSE Undefined

\* days.map(day => dayMap[day] ?? 1)
DayNumbers(days) == [k \in 1..Len(days) |-> Coalesce(DayMapLookup(days[k]), 1)]

getRRuleFreq(text) ==
    IF Includes(text, STR_FREQ_DAILY) THEN "daily"
    ELSE IF Includes(text, STR_FREQ_WEEKLY) THEN "weekly"
    ELSE IF Includes(text, STR_FREQ_MONTHLY) THEN "monthly"
    ELSE "daily"

\* the byweekday entry of getRRuleOptions: /BYDAY=([^;]+)/
ByWeekdayOption(text) ==
    LET byDay == Match(text, STR_BYDAY, {";"}, FALSE)
    IN  IF Includes(text, STR_BYDAY) /\ byDay # <<>>
        THEN [byweekday |-> DayNumbers(Split(byDay, ","))]
        ELSE <<>>

\* the bymonthday entry of getRRuleOptions: /BYMONTHDAY=(\d+)/
ByMonthDayOption(text) ==
    LET byMonthDay == Match(text, STR_BYMONTHDAY, {Digits[k] : k \in 1..10}, TRUE)
    IN  IF Includes(text, STR_BYMONTHDAY) /\ byMonthDay # <<>>
        THEN [bymonthday |-> <<DigitsValue(byMonthDay)>>]
        ELSE <<>>

\* the options object: a record with the entries that were assigned
getRRuleOptions(text) == ByWeekdayOption(text) @@ ByMonthDayOption(text)

getTaskColor(taskType, border) ==
    CASE taskType = "download_qubex_config" ->
             IF border THEN "#1d4ed8" ELSE "#3b82f6"
      [] taskType = "generate_topology" ->
             IF border THEN "#047857" ELSE "#059669"
      [] taskType = "change_status" ->
             IF border THEN "#b91c1c" ELSE "#dc2626"
      [] OTHER -> IF border THEN "#4b5563" ELSE "#6b7280"

\* a truthiness test that only asks whether the field is there
TruthyWhenPresent(text) == TRUE

\* a truthy string
Truthy(text) == text # EmptyString

\* a display date that forgets the hour
displayDateAtProjection(schedule, nw) ==
    IF schedule.next_run_at # Undefined THEN schedule.next_run_at ELSE nw

\* schedule.next_run_at || new Date(Date.now() + 60 * 60 * 1000).toISOString()
displayDate(schedule, nw) ==
    IF schedule.next_run_at # Undefined THEN schedule.next_run_at ELSE nw + 60

\* a base event that stores a date to display in the schedule it carries
baseEventDated(schedule) ==
    [id |-> NumberToString(schedule.id),
     title |-> schedule.name,
     backgroundColor |-> IF schedule.enabled
                         THEN getTaskColor(schedule.task_type, FALSE)
                         ELSE "#9ca3af",
     borderColor |-> IF schedule.enabled
                     THEN getTaskColor(schedule.task_type, TRUE)
                     ELSE "#6b7280",
     textColor |-> "white",
     extendedProps |->
         [schedule |-> [schedule EXCEPT
                           !.next_run_at = IF @ = Undefined THEN 0 ELSE @]]]

\* const baseEvent = { ... }
baseEvent(schedule) ==
    [id |-> NumberToString(schedule.id),
     title |-> schedule.name,
     backgroundColor |-> IF schedule.enabled
                         THEN getTaskColor(schedule.task_type, FALSE)
                         ELSE "#9ca3af",
     borderColor |-> IF schedule.enabled
                     THEN getTaskColor(schedule.task_type, TRUE)
                     ELSE "#6b7280",
     textColor |-> "white",
     extendedProps |-> [schedule |-> schedule]]

\* the callback of response.data.map in fetchSchedules.  A time stamp
\* (next_run_at, dtstart, start) is the instant it denotes.
CalendarEvent(schedule, nw) ==
    IF Truthy(schedule.rrule) /\ schedule.enabled
    THEN LET startTime == IF schedule.next_run_at # Undefined
                          THEN schedule.next_run_at
                          ELSE setHours(nw, 9, 0)
         IN  [rrule |-> [freq |-> getRRuleFreq(schedule.rrule),
                         dtstart |-> startTime]
                        @@ getRRuleOptions(schedule.rrule)]
             @@ baseEvent(schedule)
    ELSE [start |-> displayDate(schedule, nw),
          title |-> schedule.name \o <<" ">> \o
                    (IF schedule.next_run_at # Undefined THEN EmptyString
                     ELSE STR_NO_SCHEDULE)]
         @@ baseEvent(schedule)

\* fetchSchedules when getSchedules resolves with the store's schedules
fetchSchedules ==
    /\ loading
    /\ schedules' = store
    /\ events' = [k \in 1..Len(store) |-> CalendarEvent(store[k], now)]
    /\ loading' = FALSE
    /\ UNCHANGED <<now, selectorVars, store, hostVars>>

\* fetchSchedules when getSchedules rejects: the catch block only logs
fetchSchedulesFailed ==
    /\ loading
    /\ loading' = FALSE
    /\ UNCHANGED <<now, selectorVars, store, schedules, events, hostVars>>

RemoveAt(seq, k) == SubSeq(seq, 1, k - 1) \o SubSeq(seq, k + 1, Len(seq))

\* handleToggleSchedule on a listed schedule: the store flips its enabled
\* flag, then the calendar is fetched again
handleToggleSchedule(k) ==
    /\ ~loading
    /\ k \in 1..Len(schedules)
    /\ \E j \in 1..Len(store) :
          /\ store[j].id = schedules[k].id
          /\ store' = [store EXCEPT ![j].enabled = ~store[j].enabled]
    /\ schedules' = store'
    /\ events' = [j \in 1..Len(store') |-> CalendarEvent(store'[j], now)]
    /\ loading' = FALSE
    /\ UNCHANGED <<now, selectorVars, hostVars>>

\* handleDeleteSchedule on a listed schedule, confirmed by the user: the
\* store drops it, then the calendar is fetched again
handleDeleteSchedule(k) ==
    /\ ~loading
    /\ k \in 1..Len(schedules)
    /\ \E j \in 1..Len(store) :
          /\ store[j].id = schedules[k].id
          /\ store' = RemoveAt(store, j)
    /\ schedules' = store'
    /\ events' = [j \in 1..Len(store') |-> CalendarEvent(store'[j], now)]
    /\ loading' = FALSE
    /\ UNCHANGED <<now, selectorVars, hostVars>>

----------------------------------------------------------------------------
(* Specification of the calendar: it mounts over a store that holds up to  *)
(* MaxSchedules schedules, whose rule text may come from other tools       *)

RuleTexts ==
    {EmptyString,
     <<"F", "R", "E", "Q", "=", "D", "A", "I", "L", "Y">>,
     <<"F", "R", "E", "Q", "=", "D", "A", "I", "L", "Y", ";", "B", "Y", "D", "A", "Y", "=", "M", "O", ",", "T", "U", ",", "W", "E", ",", "T", "H", ",", "F", "R">>,
     <<"F", "R", "E", "Q", "=", "W", "E", "E", "K", "L", "Y", ";", "B", "Y", "D", "A", "Y", "=", "S", "U">>,
     <<"F", "R", "E", "Q", "=", "W", "E", "E", "K", "L", "Y", ";", "B", "Y", "D", "A", "Y", "=", "S", "A">>,
     <<"F", "R", "E", "Q", "=", "M", "O", "N", "T", "H", "L", "Y", ";", "B", "Y", "M", "O", "N", "T", "H", "D", "A", "Y", "=", "3", "1">>,
     <<"F", "R", "E", "Q", "=", "Y", "E", "A", "R", "L", "Y", ";", "F", "O", "O", "=", "B", "A", "R">>,
     <<"F", "R", "E", "Q", "=", "Y", "E", "A", "R", "L", "Y", ";", "B", "Y", "D", "A", "Y", "=", "M", "O">>,
     <<"B", "Y", "M", "O", "N", "T", "H", "D", "A", "Y", "=", "1", "5">>,
     <<"F", "R", "E", "Q", "=", "W", "E", "E", "K", "L", "Y", ";", "B", "Y", "D", "A", "Y", "=", "M", "O", ",", "X", "X", ",", "S", "A">>,
     <<"F", "R", "E", "Q", "=", "W", "E", "E", "K", "L", "Y", ";", "B", "Y", "D", "A", "Y", "=", "c", "o", "n", "s", "t", "r", "u", "c", "t", "o", "r">>,
     <<"F", "R", "E", "Q", "=", "W", "E", "E", "K", "L", "Y", ";", "B", "Y", "D", "A", "Y", "=", ";", "I", "N", "T", "E", "R", "V", "A", "L", "=", "2">>,
     <<"F", "R", "E", "Q", "=", "M", "O", "N", "T", "H", "L", "Y", ";", "B", "Y", "M", "O", "N", "T", "H", "D", "A", "Y", "=", "x">>}

TaskTypes == <<"download_qubex_config", "change_status", "generate_topology">>
ScheduleNames == <<<<"a">>, <<"b">>, <<"c">>>>

\* the schedules the store may hold under a given id
SchedulesWithId(id) ==
    [id : {id},
     name : {ScheduleNames[((id - 1) % 3) + 1]},
     task_type : {TaskTypes[((id - 1) % 3) + 1]},
     rrule : RuleTexts,
     timezone : {STR_ASIA_TOKYO},
     enabled : BOOLEAN,
     next_run_at : {Undefined, (FirstNowDay + 1) * MinutesPerDay + 9 * 60}]

Stores ==
    UNION {{st \in [1..n -> UNION {SchedulesWithId(id) : id \in 1..n}] :
               \A k \in 1..n : st[k].id = k} : n \in 0..MaxSchedules}

InitSelectorIdle ==
    /\ startDate = FirstNowDay * MinutesPerDay + 9 * 60
    /\ config = InitialConfig
    /\ rrule = EmptyString
    /\ preview = <<>>

InitCalendarSpec ==
    /\ now = FirstNowDay * MinutesPerDay + 9 * 60
    /\ InitSelectorIdle
    /\ store \in Stores
    /\ schedules = <<>>
    /\ events = <<>>
    /\ loading = TRUE
    /\ localZone = STR_ASIA_TOKYO
    /\ InitConsoleIdle
    /\ InitRecurrenceIdle
    /\ InitForm
    /\ InitPage

NextCalendar ==
    \/ fetchSchedules
    \/ fetchSchedulesFailed
    \/ \E k \in 1..MaxSchedules : handleToggleSchedule(k)
    \/ \E k \in 1..MaxSchedules : handleDeleteSchedule(k)

SpecCalendar == InitCalendarSpec /\ [][NextCalendar]_vars

----------------------------------------------------------------------------
(* ScheduleForm: the time zone select, and the selector under it           *)

\* the time zones offered by the select that have no daylight saving time
Zones == {STR_ASIA_TOKYO, STR_UTC}

\* onChange of the time zone select: only formData changes; the selector is
\* rendered again with the new prop and none of its effects runs
handleTimezoneChange(tz) ==
    /\ isFormOpen
    /\ tz \in Zones
    /\ formData' = [formData EXCEPT !.timezone = tz]
    /\ UNCHANGED <<now, selectorVars, calendarVars, ambientVars, saving,
                   pending, pageVars>>

\* the form is open in a runtime of either zone
InitTimezone ==
    /\ now \in Nows
    /\ startDate \in StartDates
    /\ startDate <= now
    /\ config = InitialConfig
    /\ rrule = generateRRule(InitialConfig, startDate, now).rrule
    /\ preview = generateRRule(InitialConfig, startDate, now).preview
    /\ InitCalendar
    /\ localZone \in Zones
    /\ InitConsoleIdle
    /\ InitRecurrenceIdle
    /\ InitForm
    /\ selectedSchedule = <<>>
    /\ isFormOpen = TRUE
    /\ calendarKey = 0

NextTimezone ==
    \/ \E tz \in Zones : handleTimezoneChange(tz)
    \/ \E type \in RecurrenceTypes : handleTypeChange(type)
    \/ \E time \in Times : handleTimeChange(time)
    \/ Tick

SpecTimezone == InitTimezone /\ [][NextTimezone]_vars

----------------------------------------------------------------------------
(* SchedulerPage: the calendar, and the form that saves to the store       *)

MaxSaves == 2    \* saves and deletes the form sends to the store

\* the next run the store computes for a schedule it saves
NextRuns == {Undefined, (FirstNowDay + 1) * MinutesPerDay + 9 * 60}

FormNames == {<<"a">>}
FormTypes == {"none", "daily"}

\* a payload that sends the time the form was opened as the next run
scheduleDataWithNextRun(fd, rule) ==
    [name |-> fd.name,
     task_type |-> "download_qubex_config",
     timezone |-> fd.timezone,
     enabled |-> fd.enabled,
     next_run_at |-> startDate]
    @@ (IF Truthy(rule) THEN [rrule |-> rule] ELSE <<>>)

\* const scheduleData = { ... }: an undefined rrule is not in the payload
scheduleData(fd, rule) ==
    [name |-> fd.name,
     task_type |-> "download_qubex_config",
     timezone |-> fd.timezone,
     enabled |-> fd.enabled]
    @@ (IF Truthy(rule) THEN [rrule |-> rule] ELSE <<>>)

\* the store answers createSchedule: it numbers the schedule and computes
\* its next run itself
StoreCreate(st, payload, nextRun) ==
    Append(st,
           [id |-> IF st = <<>> THEN 1 ELSE st[Len(st)].id + 1,
            name |-> payload.name,
            task_type |-> payload.task_type,
            rrule |-> IF "rrule" \in DOMAIN payload THEN payload.rrule
                      ELSE EmptyString,
            timezone |-> payload.timezone,
            enabled |-> payload.enabled,
            next_run_at |-> nextRun])

\* the store answers updateSchedule: the fields of the payload replace the
\* stored ones
StoreUpdate(st, id, payload, nextRun) ==
    [k \in 1..Len(st) |->
        IF st[k].id # id THEN st[k]
        ELSE [st[k] EXCEPT
                 !.name = payload.name,
                 !.rrule = IF "rrule" \in DOMAIN payload THEN payload.rrule
                           ELSE @,
                 !.timezone = payload.timezone,
                 !.enabled = payload.enabled,
                 !.next_run_at = nextRun]]

\* the store answers deleteSchedule
StoreDelete(st, id) == SelectSeq(st, LAMBDA sc : sc.id # id)

HasId(st, id) == \E k \in 1..Len(st) : st[k].id = id

\* the selector is mounted with the form and its effect hands '' to
\* onChange; unmounted, it has no state and is kept as it mounts
SelectorMounts ==
    /\ config' = InitialConfig
    /\ preview' = generateRRule(InitialConfig, startDate, now).preview

\* handleCreateClick: the schedule prop stays undefined, so the effect of
\* the form does not run and formData keeps all but its rrule
handleCreateClick ==
    /\ ~isFormOpen
    /\ selectedSchedule' = <<>>
    /\ isFormOpen' = TRUE
    /\ SelectorMounts
    /\ rrule' = generateRRule(InitialConfig, startDate, now).rrule
    /\ UNCHANGED <<now, startDate, calendarVars, ambientVars, formVars,
                   calendarKey>>

\* handleScheduleSelect: the selector's effect runs first, then the effect
\* of the form copies the schedule into formData
handleScheduleSelect(schedule) ==
    /\ selectedSchedule' = <<schedule>>
    /\ isFormOpen' = TRUE
    /\ SelectorMounts
    /\ formData' = [name |-> schedule.name, timezone |-> schedule.timezone,
                    enabled |-> schedule.enabled]
    /\ rrule' = schedule.rrule
    /\ UNCHANGED <<now, startDate, calendarVars, ambientVars, saving, pending,
                   calendarKey>>

\* handleEventClick on the k-th entry; the open form covers the calendar
handleEventClick(k) ==
    /\ ~isFormOpen
    /\ ~loading
    /\ k \in 1..Len(events)
    /\ handleScheduleSelect(events[k].extendedProps.schedule)

\* handleFormClose, and what follows from it: the selector unmounts, and
\* when a schedule was selected the effect of the form resets formData
CloseForm ==
    /\ isFormOpen' = FALSE
    /\ selectedSchedule' = <<>>
    /\ SelectorMounts
    /\ IF selectedSchedule # <<>>
       THEN formData' = InitialFormData /\ rrule' = EmptyString
       ELSE formData' = formData /\ rrule' = rrule

\* the Cancel button and the X button
handleFormClose ==
    /\ isFormOpen
    /\ CloseForm
    /\ UNCHANGED <<now, startDate, calendarVars, ambientVars, saving, pending,
                   calendarKey>>

\* onChange of the name input
handleNameChange(name) ==
    /\ isFormOpen
    /\ name \in FormNames
    /\ formData' = [formData EXCEPT !.name = name]
    /\ UNCHANGED <<now, selectorVars, calendarVars, ambientVars, saving,
                   pending, pageVars>>

\* handleSubmit up to its await
handleSubmit ==
    /\ isFormOpen
    /\ ~saving
    /\ Truthy(formData.name)
    /\ calendarKey < MaxSaves
    /\ saving' = TRUE
    /\ pending' = Append(pending,
           [kind |-> IF selectedSchedule # <<>> THEN "update" ELSE "create",
            id |-> IF selectedSchedule # <<>> THEN selectedSchedule[1].id
                   ELSE Undefined,
            payload |-> scheduleData(formData, rrule)])
    /\ UNCHANGED <<now, selectorVars, calendarVars, ambientVars, formData,
                   pageVars>>

\* a Delete button that stays enabled while a call is in flight
handleDeleteWhileSaving ==
    /\ isFormOpen
    /\ selectedSchedule # <<>>
    /\ calendarKey < MaxSaves
    /\ saving' = TRUE
    /\ pending' = Append(pending,
           [kind |-> "delete", id |-> selectedSchedule[1].id,
            payload |-> <<>>])
    /\ UNCHANGED <<now, selectorVars, calendarVars, ambientVars, formData,
                   pageVars>>

\* handleDelete, confirmed by the user, up to its await
handleDelete ==
    /\ isFormOpen
    /\ selectedSchedule # <<>>
    /\ ~saving
    /\ calendarKey < MaxSaves
    /\ saving' = TRUE
    /\ pending' = Append(pending,
           [kind |-> "delete", id |-> selectedSchedule[1].id,
            payload |-> <<>>])
    /\ UNCHANGED <<now, selectorVars, calendarVars, ambientVars, formData,
                   pageVars>>

\* handleFormSave: the new key mounts a new ScheduleCalendar, whose effect
\* calls fetchSchedules
handleFormSave ==
    /\ calendarKey' = calendarKey + 1
    /\ schedules' = <<>>
    /\ events' = <<>>
    /\ loading' = TRUE

\* the store accepts the call in flight; handleSubmit or handleDelete goes
\* on after its await: onSave(), onClose(), setSaving(false)
saveResolved ==
    /\ pending # <<>>
    /\ LET call == Head(pending)
       IN  CASE call.kind = "create" ->
                  \E nextRun \in NextRuns :
                      store' = StoreCreate(store, call.payload, nextRun)
             [] call.kind = "update" ->
                  /\ HasId(store, call.id)
                  /\ \E nextRun \in NextRuns :
                        store' = StoreUpdate(store, call.id, call.payload,
                                             nextRun)
             [] call.kind = "delete" ->
                  /\ HasId(store, call.id)
                  /\ store' = StoreDelete(store, call.id)
    /\ pending' = Tail(pending)
    /\ handleFormSave
    /\ CloseForm
    /\ saving' = FALSE
    /\ UNCHANGED <<now, startDate, ambientVars>>

\* the call in flight fails: alert, setSaving(false)
saveRejected ==
    /\ pending # <<>>
    /\ pending' = Tail(pending)
    /\ saving' = FALSE
    /\ UNCHANGED <<now, selectorVars, calendarVars, ambientVars, formData,
                   pageVars>>

InitScheduler ==
    /\ now = FirstNowDay * MinutesPerDay + 9 * 60
    /\ InitSelectorIdle
    /\ InitCalendar
    /\ localZone = STR_ASIA_TOKYO
    /\ InitConsoleIdle
    /\ InitRecurrenceIdle
    /\ InitForm
    /\ InitPage

NextScheduler ==
    \/ handleCreateClick
    \/ \E k \in 1..MaxSaves : handleEventClick(k)
    \/ handleFormClose
    \/ \E name \in FormNames : handleNameChange(name)
    \/ \E type \in FormTypes : isFormOpen /\ handleTypeChange(type)
    \/ handleSubmit
    \/ handleDelete
    \/ saveResolved
    \/ saveRejected
    \/ fetchSchedules
    \/ fetchSchedulesFailed

\* a call in flight settles, and so does the getSchedules request of a
\* mounted calendar
SpecScheduler ==
    /\ InitScheduler
    /\ [][NextScheduler]_vars
    /\ WF_vars(saveResolved \/ saveRejected)
    /\ WF_vars(fetchSchedules \/ fetchSchedulesFailed)

----------------------------------------------------------------------------
(* RecurrenceSelector: presets and the preview of the Schedule Store.  The *)
(* parent hands the argument of onChange back as the value prop.           *)

MaxPreviewCalls == 2    \* previewRRule requests in flight

\* rule texts typed or preset: none, blank, one the store accepts, one it
\* refuses
RecurrenceValues == {EmptyString, <<" ">>, STR_FREQ_DAILY, <<"X">>}

\* the response of getPresets
StorePresets == <<[id |-> "daily", rrule |-> STR_FREQ_DAILY]>>

\* whether the store accepts a rule text
StoreAccepts(rule) == rule = STR_FREQ_DAILY

\* the error_message with which the store refuses a rule text
StoreMessage(rule) == <<"I", "n", "v", "a", "l", "i", "d", " ", "R", "R", "U", "L", "E", ":", " ">> \o rule

\* rrule.trim()
RECURSIVE Trim(_)
Trim(text) ==
    IF text = <<>> THEN text
    ELSE IF Head(text) = " " THEN Trim(Tail(text))
    ELSE IF text[Len(text)] = " " THEN Trim(SubSeq(text, 1, Len(text) - 1))
    ELSE text

\* previewRRule up to its await
previewRRule(rule) ==
    IF ~Truthy(Trim(rule))
    THEN /\ storePreview' = <<>>
         /\ UNCHANGED previewCalls
    ELSE /\ previewCalls' = Append(previewCalls,
                                   [rrule |-> rule, response |-> "none"])
         /\ UNCHANGED storePreview

\* presets.find(p => p.rrule === value)
MatchingPresets(ps, rule) == {k \in 1..Len(ps) : ps[k].rrule = rule}

\* the effect on [value, presets], run with the new value v and presets ps
\* after a handler has set selectedPreset, customRRule and isCustom to sel,
\* custom and isC
ValueEffect(v, ps, sel, custom, isC) ==
    IF Truthy(v)
    THEN /\ IF MatchingPresets(ps, v) # {}
            THEN /\ selectedPreset' =
                        ps[CHOOSE k \in MatchingPresets(ps, v) :
                              \A j \in MatchingPresets(ps, v) : k <= j].id
                 /\ isCustom' = FALSE
                 /\ customRRule' = custom
            ELSE /\ customRRule' = v
                 /\ isCustom' = TRUE
                 /\ selectedPreset' = sel
         /\ previewRRule(v)
         /\ Len(previewCalls') <= MaxPreviewCalls
    ELSE /\ selectedPreset' = sel
         /\ customRRule' = custom
         /\ isCustom' = isC
         /\ UNCHANGED <<storePreview, previewCalls>>

\* what a handler leaves when the value it hands to onChange is the value
\* the selector already has: no effect runs
NoEffect(sel, custom, isC) ==
    /\ selectedPreset' = sel
    /\ customRRule' = custom
    /\ isCustom' = isC
    /\ UNCHANGED <<storePreview, previewCalls>>

recurrenceFrame ==
    <<now, selectorVars, calendarVars, localZone, formVars, pageVars,
      configPage, configCalls, configFiles, environment, environmentCalls>>

\* the select of the pattern: a preset, 'custom' or the empty option
handlePresetChange(presetId) ==
    /\ ~presetsLoading
    /\ presetId \in {"", "custom"} \cup {presets[k].id : k \in 1..Len(presets)}
    /\ LET found == {k \in 1..Len(presets) : presets[k].id = presetId}
       IN  IF presetId # "custom" /\ found # {}
           THEN LET rule == presets[CHOOSE k \in found : TRUE].rrule
                IN  /\ value' = rule
                    /\ IF rule # value
                       THEN ValueEffect(rule, presets, presetId, customRRule,
                                        FALSE)
                       ELSE NoEffect(presetId, customRRule, FALSE)
           ELSE /\ value' = value
                /\ NoEffect(presetId, customRRule, presetId = "custom")
    /\ UNCHANGED <<presets, presetsLoading, presetsCall, recurrenceFrame>>

\* the textarea, rendered while isCustom
handleCustomRRuleChange(text) ==
    /\ ~presetsLoading
    /\ isCustom
    /\ text \in RecurrenceValues
    /\ value' = text
    /\ IF text # value
       THEN ValueEffect(text, presets, selectedPreset, text, isCustom)
       ELSE NoEffect(selectedPreset, text, isCustom)
    /\ UNCHANGED <<presets, presetsLoading, presetsCall, recurrenceFrame>>

\* fetchPresets after its await when getPresets resolves: presets is a new
\* array, so the effect on [value, presets] runs again
presetsResolved ==
    /\ presetsCall
    /\ presetsCall' = FALSE
    /\ presets' = StorePresets
    /\ presetsLoading' = FALSE
    /\ ValueEffect(value, StorePresets, selectedPreset, customRRule, isCustom)
    /\ UNCHANGED <<value, recurrenceFrame>>

\* fetchPresets after its await when getPresets rejects
presetsRejected ==
    /\ presetsCall
    /\ presetsCall' = FALSE
    /\ presetsLoading' = FALSE
    /\ UNCHANGED <<value, presets, selectedPreset, customRRule, isCustom,
                   storePreview, previewCalls, recurrenceFrame>>

\* the preview the store answers with
StoreAnswer(rule) ==
    IF StoreAccepts(rule)
    THEN [is_valid |-> TRUE, error_message |-> EmptyString]
    ELSE [is_valid |-> FALSE, error_message |-> StoreMessage(rule)]

\* the preview that the catch block of previewRRule sets
CaughtPreview ==
    <<[is_valid |-> FALSE, error_message |-> STR_FAILED_TO_VALIDATE]>>

\* the store answers the i-th request in flight: with a preview in the body
\* of the response, or, when it refuses the rule, possibly with an error
\* status instead
storeResponds(i, how) ==
    /\ i \in 1..Len(previewCalls)
    /\ previewCalls[i].response = "none"
    /\ how \in {"body"} \cup
               (IF StoreAccepts(previewCalls[i].rrule) THEN {} ELSE {"status"})
    /\ previewCalls' = [previewCalls EXCEPT ![i].response = how]
    /\ UNCHANGED <<value, presets, selectedPreset, customRRule, isCustom,
                   storePreview, presetsLoading, presetsCall, recurrenceFrame>>

\* previewRRule after its await when the i-th request in flight resolves:
\* setPreview(response.data)
previewResolved(i) ==
    /\ i \in 1..Len(previewCalls)
    /\ previewCalls[i].response = "body"
    /\ storePreview' = <<StoreAnswer(previewCalls[i].rrule)>>
    /\ previewCalls' = RemoveAt(previewCalls, i)
    /\ UNCHANGED <<value, presets, selectedPreset, customRRule, isCustom,
                   presetsLoading, presetsCall, recurrenceFrame>>

\* previewRRule after its await when the i-th request in flight rejects: the
\* network fails, or the store refused the rule with an error status
previewRejected(i) ==
    /\ i \in 1..Len(previewCalls)
    /\ previewCalls[i].response \in {"none", "status"}
    /\ storePreview' = CaughtPreview
    /\ previewCalls' = RemoveAt(previewCalls, i)
    /\ UNCHANGED <<value, presets, selectedPreset, customRRule, isCustom,
                   presetsLoading, presetsCall, recurrenceFrame>>

\* the selector mounts with a value: fetchPresets is called, and the effect
\* on [value, presets] runs with no presets
InitRecurrence ==
    /\ now = FirstNowDay * MinutesPerDay + 9 * 60
    /\ InitSelectorIdle
    /\ InitCalendar
    /\ localZone = STR_ASIA_TOKYO
    /\ InitConsoleIdle
    /\ InitForm
    /\ InitPage
    /\ value \in RecurrenceValues
    /\ presets = <<>>
    /\ selectedPreset = ""
    /\ customRRule = value
    /\ isCustom = Truthy(value)
    /\ storePreview = <<>>
    /\ presetsLoading = TRUE
    /\ presetsCall = TRUE
    /\ previewCalls = IF Truthy(Trim(value))
                      THEN <<[rrule |-> value, response |-> "none"]>>
                      ELSE <<>>

NextRecurrence ==
    \/ \E presetId \in {"", "custom", "daily"} : handlePresetChange(presetId)
    \/ \E text \in RecurrenceValues : handleCustomRRuleChange(text)
    \/ presetsResolved
    \/ presetsRejected
    \/ \E i \in 1..MaxPreviewCalls, how \in {"body", "status"} :
          storeResponds(i, how)
    \/ \E i \in 1..MaxPreviewCalls : previewResolved(i)
    \/ \E i \in 1..MaxPreviewCalls : previewRejected(i)

SpecRecurrence == InitRecurrence /\ [][NextRecurrence]_vars

----------------------------------------------------------------------------
(* ConfigPage: the editor of config.yaml and of the topology request file  *)

MaxConfigCalls == 2    \* config file requests in flight
MaxContentLen == 3     \* characters in the textarea

\* useEffect(() => setHasChanges(content !== originalContent))
hasChanges(page) == page.content # page.originalContent

\* what ConfigPage and useEnvironmentInfo leave alone
consoleFrame ==
    <<now, selectorVars, calendarVars, localZone, recurrenceVars, formVars,
      pageVars>>

\* a tab button: the effect on [activeTab] calls fetchConfig, which asks for
\* the file of the new tab; the content stays until a response replaces it
setActiveTab(tab) ==
    /\ tab # configPage.activeTab
    /\ Len(configCalls) < MaxConfigCalls
    /\ configPage' = [configPage EXCEPT !.activeTab = tab, !.loading = TRUE]
    /\ configCalls' = Append(configCalls,
           [kind |-> "get", endpoint |-> tab, content |-> EmptyString])
    /\ UNCHANGED <<configFiles, consoleFrame, environment, environmentCalls>>

\* the Reload button, disabled while loading: fetchConfig up to its await
fetchConfig ==
    /\ ~configPage.loading
    /\ Len(configCalls) < MaxConfigCalls
    /\ configPage' = [configPage EXCEPT !.loading = TRUE]
    /\ configCalls' = Append(configCalls,
           [kind |-> "get", endpoint |-> configPage.activeTab,
            content |-> EmptyString])
    /\ UNCHANGED <<configFiles, consoleFrame, environment, environmentCalls>>

\* fetchConfig after its await when the i-th request in flight resolves
fetchConfigResolved(i) ==
    /\ i \in 1..Len(configCalls)
    /\ configCalls[i].kind = "get"
    /\ configPage' = [configPage EXCEPT
           !.content = configFiles[configCalls[i].endpoint],
           !.originalContent = configFiles[configCalls[i].endpoint],
           !.loading = FALSE]
    /\ configCalls' = RemoveAt(configCalls, i)
    /\ UNCHANGED <<configFiles, consoleFrame, environment, environmentCalls>>

\* fetchConfig after its await when the i-th request in flight rejects
fetchConfigRejected(i) ==
    /\ i \in 1..Len(configCalls)
    /\ configCalls[i].kind = "get"
    /\ configPage' = [configPage EXCEPT !.loading = FALSE]
    /\ configCalls' = RemoveAt(configCalls, i)
    /\ UNCHANGED <<configFiles, consoleFrame, environment, environmentCalls>>

\* onChange of the textarea, rendered while not loading: a character is typed
handleContentChange ==
    /\ ~configPage.loading
    /\ Len(configPage.content) < MaxContentLen
    /\ configPage' = [configPage EXCEPT !.content = Append(@, "+")]
    /\ UNCHANGED <<configCalls, configFiles, consoleFrame, environment,
                   environmentCalls>>

\* the Reset button
handleReset ==
    /\ hasChanges(configPage)
    /\ ~configPage.loading
    /\ configPage' = [configPage EXCEPT !.content = configPage.originalContent]
    /\ UNCHANGED <<configCalls, configFiles, consoleFrame, environment,
                   environmentCalls>>

\* the Save button: handleSave up to its await, with the tab and the content
\* of the render it was clicked in
handleSave ==
    /\ hasChanges(configPage)
    /\ ~configPage.loading
    /\ ~configPage.saving
    /\ Len(configCalls) < MaxConfigCalls
    /\ configPage' = [configPage EXCEPT !.saving = TRUE]
    /\ configCalls' = Append(configCalls,
           [kind |-> "post", endpoint |-> configPage.activeTab,
            content |-> configPage.content])
    /\ UNCHANGED <<configFiles, consoleFrame, environment, environmentCalls>>

\* handleSave after its await when the gateway has written the file:
\* setOriginalContent(content) with the content that was sent
handleSaveResolved(i) ==
    /\ i \in 1..Len(configCalls)
    /\ configCalls[i].kind = "post"
    /\ configFiles' = [configFiles EXCEPT
           ![configCalls[i].endpoint] = configCalls[i].content]
    /\ configPage' = [configPage EXCEPT
           !.originalContent = configCalls[i].content,
           !.saving = FALSE]
    /\ configCalls' = RemoveAt(configCalls, i)
    /\ UNCHANGED <<consoleFrame, environment, environmentCalls>>

\* handleSave after its await when the request rejects
handleSaveRejected(i) ==
    /\ i \in 1..Len(configCalls)
    /\ configCalls[i].kind = "post"
    /\ configPage' = [configPage EXCEPT !.saving = FALSE]
    /\ configCalls' = RemoveAt(configCalls, i)
    /\ UNCHANGED <<configFiles, consoleFrame, environment, environmentCalls>>

\* the page mounts on the yaml tab and its effect calls fetchConfig
InitConfig ==
    /\ now = FirstNowDay * MinutesPerDay + 9 * 60
    /\ InitSelectorIdle
    /\ InitCalendar
    /\ localZone = STR_ASIA_TOKYO
    /\ InitRecurrenceIdle
    /\ InitForm
    /\ InitPage
    /\ configPage = InitialConfigPage
    /\ configCalls =
          <<[kind |-> "get", endpoint |-> "yaml", content |-> EmptyString]>>
    /\ configFiles = [yaml |-> STR_CONFIG_YAML,
                      topology |-> STR_TOPOLOGY_REQUEST]
    /\ environment = InitialEnvironment
    /\ environmentCalls = <<>>

NextConfig ==
    \/ \E tab \in {"yaml", "topology"} : setActiveTab(tab)
    \/ fetchConfig
    \/ \E i \in 1..MaxConfigCalls : fetchConfigResolved(i)
    \/ \E i \in 1..MaxConfigCalls : fetchConfigRejected(i)
    \/ handleContentChange
    \/ handleReset
    \/ handleSave
    \/ \E i \in 1..MaxConfigCalls : handleSaveResolved(i)
    \/ \E i \in 1..MaxConfigCalls : handleSaveRejected(i)

SpecConfig == InitConfig /\ [][NextConfig]_vars

----------------------------------------------------------------------------
(* useEnvironmentInfo: the environment information of the device gateway,  *)
(* fetched on mount, by the 30 second poll and on window events            *)

MaxFetches == 4    \* getEnvironmentInfo requests that are started

STR_FAILED_TO_LOAD_ENVIRONMENT ==
    <<"F", "a", "i", "l", "e", "d", " ", "t", "o", " ", "l", "o", "a", "d",
      " ", "e", "n", "v", "i", "r", "o", "n", "m", "e", "n", "t", " ", "i",
      "n", "f", "o", "r", "m", "a", "t", "i", "o", "n">>

\* response.data of the n-th request
EnvironmentResponse(n) == [request |-> n]

\* fetchEnvironmentInfo up to its await: setLoading(true) and the request
fetchEnvironmentInfo ==
    /\ Len(environmentCalls) < MaxFetches
    /\ environment' = [environment EXCEPT !.loading = TRUE]
    /\ environmentCalls' = Append(environmentCalls, "inflight")
    /\ UNCHANGED <<consoleFrame, configPage, configCalls, configFiles>>

\* the callback of setInterval(fetchEnvironmentInfo, 30000)
pollInterval ==
    /\ environmentCalls # <<>>
    /\ fetchEnvironmentInfo

\* the visibilitychange listener
handleVisibilityChange(hidden) ==
    /\ ~hidden
    /\ fetchEnvironmentInfo

\* the focus listener
handleFocus ==
    /\ environmentCalls # <<>>
    /\ fetchEnvironmentInfo

\* the configUpdated listener
handleConfigUpdate ==
    /\ environmentCalls # <<>>
    /\ fetchEnvironmentInfo

\* fetchEnvironmentInfo after its await when the n-th request resolves
environmentResolved(n) ==
    /\ n \in 1..Len(environmentCalls)
    /\ environmentCalls[n] = "inflight"
    /\ environment' = [environmentInfo |-> <<EnvironmentResponse(n)>>,
                       error |-> <<>>,
                       loading |-> FALSE]
    /\ environmentCalls' = [environmentCalls EXCEPT ![n] = "resolved"]
    /\ UNCHANGED <<consoleFrame, configPage, configCalls, configFiles>>

\* fetchEnvironmentInfo after its await when the n-th request rejects
environmentRejected(n) ==
    /\ n \in 1..Len(environmentCalls)
    /\ environmentCalls[n] = "inflight"
    /\ environment' = [environment EXCEPT
           !.error = STR_FAILED_TO_LOAD_ENVIRONMENT,
           !.loading = FALSE]
    /\ environmentCalls' = [environmentCalls EXCEPT ![n] = "rejected"]
    /\ UNCHANGED <<consoleFrame, configPage, configCalls, configFiles>>

\* the hook mounts: its effect calls fetchEnvironmentInfo and registers the
\* interval and the listeners
InitEnvironment ==
    /\ now = FirstNowDay * MinutesPerDay + 9 * 60
    /\ InitSelectorIdle
    /\ InitCalendar
    /\ localZone = STR_ASIA_TOKYO
    /\ InitRecurrenceIdle
    /\ InitForm
    /\ InitPage
    /\ configPage = InitialConfigPage
    /\ configCalls = <<>>
    /\ configFiles = [yaml |-> STR_CONFIG_YAML,
                      topology |-> STR_TOPOLOGY_REQUEST]
    /\ environment = InitialEnvironment
    /\ environmentCalls = <<"inflight">>

NextEnvironment ==
    \/ pollInterval
    \/ \E hidden \in BOOLEAN : handleVisibilityChange(hidden)
    \/ handleFocus
    \/ handleConfigUpdate
    \/ \E n \in 1..MaxFetches : environmentResolved(n)
    \/ \E n \in 1..MaxFetches : environmentRejected(n)

SpecEnvironment == InitEnvironment /\ [][NextEnvironment]_vars

----------------------------------------------------------------------------
(* Properties                                                              *)

\* the instant a preview entry shows, read back from its calendar fields
Instant(e) == MakeDate(e.year, e.month - 1, e.day, e.hour, e.minute)

TimeIsValid(time) ==
    /\ ParseTime(time).hours \in 0..23
    /\ ParseTime(time).minutes \in 0..59

\* a step in which the selector recomputes its rule and preview: every step
\* of a handler, which reads the clock and leaves it alone
Recomputes == now' = now

\* the day after the calendar day of a preview entry, at the same time
NextCalendarDay(e) ==
    IF e.day < DaysInMonth(e.year, e.month - 1) THEN [e EXCEPT !.day = @ + 1]
    ELSE IF e.month < 12 THEN [e EXCEPT !.day = 1, !.month = @ + 1]
    ELSE [e EXCEPT !.day = 1, !.month = 1, !.year = @ + 1]

\* the two-letter code of a weekday number, Sunday = 0
WeekdayCode(d) ==
    CASE d = 0 -> <<"S", "U">> [] d = 1 -> <<"M", "O">> [] d = 2 -> <<"T", "U">> [] d = 3 -> <<"W", "E">>
      [] d = 4 -> <<"T", "H">> [] d = 5 -> <<"F", "R">> [] d = 6 -> <<"S", "A">>

\* the decimal numeral of a day of the month
Numeral(n) ==
    IF n < 10 THEN <<Digits[n + 1]>>
    ELSE <<Digits[(n \div 10) + 1], Digits[(n % 10) + 1]>>

WeeklyRule(d) == <<"F", "R", "E", "Q", "=", "W", "E", "E", "K", "L", "Y", ";", "B", "Y", "D", "A", "Y", "=">> \o WeekdayCode(d)
MonthlyRule(n) == <<"F", "R", "E", "Q", "=", "M", "O", "N", "T", "H", "L", "Y", ";", "B", "Y", "M", "O", "N", "T", "H", "D", "A", "Y", "=">> \o Numeral(n)

\* C1: for every non-NONE kind, every hour:minute and every "now", the 5
\* occurrences of a freshly computed preview are strictly increasing and each
\* is strictly later than "now".
C1_PreviewIncreasingAfterNow ==
    [][(Recomputes /\ config'.type # "none" /\ TimeIsValid(config'.time)) =>
          /\ Len(preview') = PreviewCount
          /\ \A k \in 1..(PreviewCount - 1) :
                Instant(preview'[k]) < Instant(preview'[k + 1])
          /\ \A k \in 1..PreviewCount : Instant(preview'[k]) > now]_vars

\* C2: round trip: decoding the rule string that generateRRule emitted, with
\* getRRuleFreq and getRRuleOptions, gives back the frequency and exactly the
\* modifiers (weekday list, month-day) that the encoder used.
C2_RoundTrip ==
    LET freq == getRRuleFreq(rrule)
        options == getRRuleOptions(rrule)
        usedDayOfWeek == Coalesce(config.dayOfWeek, getDay(startDate))
        usedDayOfMonth == Coalesce(config.dayOfMonth, getDate(startDate))
    IN  /\ config.type = "daily" =>
              freq = "daily" /\ DOMAIN options = {}
        /\ config.type = "weekdays" =>
              /\ freq = "daily"
              /\ DOMAIN options = {"byweekday"}
              /\ options.byweekday = <<1, 2, 3, 4, 5>>
        /\ config.type = "weekly" =>
              /\ freq = "weekly"
              /\ DOMAIN options = {"byweekday"}
              /\ options.byweekday = <<usedDayOfWeek>>
        /\ config.type = "monthly" =>
              /\ freq = "monthly"
              /\ DOMAIN options = {"bymonthday"}
              /\ options.bymonthday = <<usedDayOfMonth>>

C2_Witness ==
    /\ config.type = "monthly"
    /\ config.dayOfMonth = 31
    /\ rrule = <<"F", "R", "E", "Q", "=", "M", "O", "N", "T", "H", "L", "Y", ";", "B", "Y", "M", "O", "N", "T", "H", "D", "A", "Y", "=", "3", "1">>
    /\ getRRuleOptions(rrule).bymonthday = <<31>>

\* C3: every rule string handed to onChange is one of the five canonical
\* forms, the one of the selected type: empty, FREQ=DAILY, the fixed weekdays
\* form, FREQ=WEEKLY;BYDAY=<code of dayOfWeek>, or
\* FREQ=MONTHLY;BYMONTHDAY=<dayOfMonth>.
C3_CanonicalRule ==
    /\ config.type = "none" => rrule = EmptyString
    /\ config.type = "daily" => rrule = <<"F", "R", "E", "Q", "=", "D", "A", "I", "L", "Y">>
    /\ config.type = "weekdays" => rrule = <<"F", "R", "E", "Q", "=", "D", "A", "I", "L", "Y", ";", "B", "Y", "D", "A", "Y", "=", "M", "O", ",", "T", "U", ",", "W", "E", ",", "T", "H", ",", "F", "R">>
    /\ config.type = "weekly" =>
          /\ config.dayOfWeek \in 0..6
          /\ rrule = WeeklyRule(config.dayOfWeek)
    /\ config.type = "monthly" =>
          /\ config.dayOfMonth \in 1..31
          /\ rrule = MonthlyRule(config.dayOfMonth)

C3_Witness ==
    /\ config.type = "weekly"
    /\ config.dayOfWeek = 0
    /\ config.dayOfWeek # getDay(startDate)
    /\ rrule = <<"F", "R", "E", "Q", "=", "W", "E", "E", "K", "L", "Y", ";", "B", "Y", "D", "A", "Y", "=", "S", "U">>

\* C4 as stated: selecting Weekly, which supplies no day of the week, emits
\* FREQ=WEEKLY;BYDAY=MO, and selecting Monthly emits FREQ=MONTHLY;BYMONTHDAY=1,
\* whatever the start date is.
C4_DefaultsMondayAndFirst ==
    [][/\ (config.type # "weekly" /\ config'.type = "weekly") =>
              rrule' = <<"F", "R", "E", "Q", "=", "W", "E", "E", "K", "L", "Y", ";", "B", "Y", "D", "A", "Y", "=", "M", "O">>
       /\ (config.type # "monthly" /\ config'.type = "monthly") =>
              rrule' = <<"F", "R", "E", "Q", "=", "M", "O", "N", "T", "H", "L", "Y", ";", "B", "Y", "M", "O", "N", "T", "H", "D", "A", "Y", "=", "1">>]_vars

\* C4 as amended: a WEEKLY config without dayOfWeek encodes to the weekday of
\* the start date, a MONTHLY config without dayOfMonth to the day of the month
\* of the start date; these are the rules emitted when Weekly or Monthly is
\* selected.
C4_DefaultsFromStartDate ==
    /\ [](/\ generateRRule([config EXCEPT !.type = "weekly",
                                          !.dayOfWeek = Undefined],
                           startDate, now).rrule
             = WeeklyRule(getDay(startDate))
          /\ generateRRule([config EXCEPT !.type = "monthly",
                                          !.dayOfMonth = Undefined],
                           startDate, now).rrule
             = MonthlyRule(getDate(startDate)))
    /\ [][/\ (config.type # "weekly" /\ config'.type = "weekly") =>
                 rrule' = WeeklyRule(getDay(startDate))
          /\ (config.type # "monthly" /\ config'.type = "monthly") =>
                 rrule' = MonthlyRule(getDate(startDate))]_vars

C4_Witness ==
    /\ config.type = "weekly"
    /\ getDay(startDate) = 4
    /\ config.dayOfWeek = 4
    /\ rrule = <<"F", "R", "E", "Q", "=", "W", "E", "E", "K", "L", "Y", ";", "B", "Y", "D", "A", "Y", "=", "T", "H">>

\* C5: whenever the selector's kind is 'none', the rule handed to onChange is
\* the empty string and the preview list is empty.
C5_NoneIsEmpty ==
    config.type = "none" => rrule = EmptyString /\ preview = <<>>

\* 'No repeat' selected after the type and the time had been changed
C5_Witness ==
    /\ config.type = "none"
    /\ config.time = <<"0", "0", ":", "0", "0">>
    /\ rrule = EmptyString
    /\ preview = <<>>

\* the text names none of the three frequencies the decoder knows
UnknownFrequency(text) ==
    /\ ~Includes(text, <<"F", "R", "E", "Q", "=", "D", "A", "I", "L", "Y">>)
    /\ ~Includes(text, <<"F", "R", "E", "Q", "=", "W", "E", "E", "K", "L", "Y">>)
    /\ ~Includes(text, <<"F", "R", "E", "Q", "=", "M", "O", "N", "T", "H", "L", "Y">>)

\* the events that carry a recurrence descriptor
RecurringEvents == {k \in 1..Len(events) : "rrule" \in DOMAIN events[k]}

\* C6: a rule whose frequency is not DAILY/WEEKLY/MONTHLY decodes to a
\* descriptor that is flagged as unparsed, so that it does not pass for a
\* DAILY rule.
C6_UnknownFrequencyFlagged ==
    \A k \in RecurringEvents :
        UnknownFrequency(events[k].extendedProps.schedule.rrule) =>
            \/ "unparsed" \in DOMAIN events[k].rrule
            \/ events[k].rrule.freq # "daily"

\* C7: a rule with a missing or unknown frequency decodes to DAILY with no
\* weekday list and no month-day, also when it has BYDAY= or BYMONTHDAY=.
C7_UnknownFrequencyHasNoModifiers ==
    \A k \in RecurringEvents :
        UnknownFrequency(events[k].extendedProps.schedule.rrule) =>
            /\ events[k].rrule.freq = "daily"
            /\ "byweekday" \notin DOMAIN events[k].rrule
            /\ "bymonthday" \notin DOMAIN events[k].rrule

\* C8: the decoded BYDAY list has one integer per comma-separated token, in
\* order: SU..SA give 0..6 and every other token gives 1.
C8_WeekdayTokens ==
    \A k \in RecurringEvents :
        "byweekday" \in DOMAIN events[k].rrule =>
            LET text == events[k].extendedProps.schedule.rrule
                tokens == Split(Match(text, <<"B", "Y", "D", "A", "Y", "=">>, {";"}, FALSE), ",")
                decoded == events[k].rrule.byweekday
            IN  /\ Len(decoded) = Len(tokens)
                /\ \A j \in 1..Len(tokens) :
                      decoded[j] =
                          IF \E d \in 0..6 : WeekdayCode(d) = tokens[j]
                          THEN CHOOSE d \in 0..6 : WeekdayCode(d) = tokens[j]
                          ELSE 1

\* C9: every occurrence of a freshly computed preview satisfies its rule in
\* local time: it is at the configured hour:minute; for WEEKDAYS it falls on
\* Monday..Friday, for WEEKLY on the target weekday, for MONTHLY on the
\* target day of the month.
C9_OccurrencesSatisfyRule ==
    [][(Recomputes /\ config'.type # "none" /\ TimeIsValid(config'.time)) =>
          \A k \in 1..Len(preview') :
              LET e == preview'[k]
                  weekday == getDay(Instant(e))
              IN  /\ e.hour = ParseTime(config'.time).hours
                  /\ e.minute = ParseTime(config'.time).minutes
                  /\ config'.type = "weekdays" => weekday \in 1..5
                  /\ config'.type = "weekly" => weekday = config'.dayOfWeek
                  /\ config'.type = "monthly" => e.day = config'.dayOfMonth]_vars

\* C10: DAILY: the first occurrence is today's slot when the slot is strictly
\* after "now" and tomorrow's slot when it is at or before "now"; each later
\* occurrence is one calendar day after the one before it.
C10_DailyBoundary ==
    [][(Recomputes /\ config'.type = "daily" /\ TimeIsValid(config'.time)) =>
          LET hm == ParseTime(config'.time)
              slot == DayOf(now) * MinutesPerDay + hm.hours * 60 + hm.minutes
          IN  /\ Len(preview') = PreviewCount
              /\ Instant(preview'[1])
                     = IF slot > now THEN slot ELSE slot + MinutesPerDay
              /\ \A k \in 1..(PreviewCount - 1) :
                    preview'[k + 1] = NextCalendarDay(preview'[k])]_vars

\* slot 09:00 and now 09:00: the first occurrence is tomorrow's slot, and the
\* preview runs over the end of the month
C10_Witness ==
    /\ config.type = "daily"
    /\ config.time = <<"0", "9", ":", "0", "0">>
    /\ TimeWithinDay(now) = 9 * 60
    /\ getDate(now) = 31
    /\ Len(preview) = PreviewCount
    /\ preview[1] = [year |-> 2024, month |-> 2, day |-> 1, hour |-> 9,
                     minute |-> 0]

\* the slot hours:minutes of the calendar day numbered d
SlotOn(d, time) ==
    d * MinutesPerDay + ParseTime(time).hours * 60 + ParseTime(time).minutes

\* Monday..Friday
IsBusinessDay(d) == getDay(d * MinutesPerDay) \in 1..5

\* months since January of the epoch year
MonthIndex(e) == (e.year - EpochYear) * 12 + (e.month - 1)
MonthIndexOfInstant(t) == (getFullYear(t) - EpochYear) * 12 + getMonth(t)
MonthLength(idx) == DaysInMonth(EpochYear + (idx \div 12), idx % 12)

\* C11: WEEKLY: the first occurrence is (target - weekday(now)) mod 7 days
\* ahead of today, except that when this is 0 and today's slot is at or
\* before "now" it is 7 days ahead; occurrence i is exactly 7*i days after
\* the first.
C11_WeeklyBoundary ==
    [][(Recomputes /\ config'.type = "weekly" /\ TimeIsValid(config'.time)) =>
          LET slot == SlotOn(DayOf(now), config'.time)
              delta == (config'.dayOfWeek - getDay(now)) % 7
              ahead == IF delta = 0 /\ slot <= now THEN 7 ELSE delta
          IN  /\ Len(preview') = PreviewCount
              /\ \A k \in 1..PreviewCount :
                    Instant(preview'[k])
                        = slot + (ahead + 7 * (k - 1)) * MinutesPerDay]_vars

\* Thursday 25 January 09:00, target Thursday, slot 09:00: the slot is not
\* ahead any more and the first occurrence is Thursday 1 February
C11_Witness ==
    /\ config.type = "weekly"
    /\ config.dayOfWeek = 4
    /\ config.time = <<"0", "9", ":", "0", "0">>
    /\ now = FirstNowDay * MinutesPerDay + 9 * 60
    /\ getDay(now) = 4
    /\ Len(preview) = PreviewCount
    /\ preview[1] = [year |-> 2024, month |-> 2, day |-> 1, hour |-> 9,
                     minute |-> 0]
    /\ preview[2] = [year |-> 2024, month |-> 2, day |-> 8, hour |-> 9,
                     minute |-> 0]

\* C12: WEEKDAYS: every occurrence is a Monday..Friday slot after the one
\* before it (after "now" for the first), and no Monday..Friday slot lies
\* between the two; after Friday's slot the first occurrence is the
\* following Monday.
C12_WeekdaysConsecutive ==
    [][(Recomputes /\ config'.type = "weekdays" /\ TimeIsValid(config'.time)) =>
          /\ Len(preview') = PreviewCount
          /\ \A k \in 1..PreviewCount :
                LET t == Instant(preview'[k])
                    prev == IF k = 1 THEN now ELSE Instant(preview'[k - 1])
                IN  /\ IsBusinessDay(DayOf(t))
                    /\ t = SlotOn(DayOf(t), config'.time)
                    /\ t > prev
                    /\ \A d \in DayOf(prev)..DayOf(t) :
                          (IsBusinessDay(d) /\ SlotOn(d, config'.time) > prev)
                              => SlotOn(d, config'.time) >= t]_vars

\* Friday 26 January 09:01, slot 09:00: the first occurrence is Monday 29
\* January and the fifth is Friday 2 February
C12_Witness ==
    /\ config.type = "weekdays"
    /\ config.time = <<"0", "9", ":", "0", "0">>
    /\ now = (FirstNowDay + 1) * MinutesPerDay + 9 * 60 + 1
    /\ getDay(now) = 5
    /\ Len(preview) = PreviewCount
    /\ preview[1] = [year |-> 2024, month |-> 1, day |-> 29, hour |-> 9,
                     minute |-> 0]
    /\ preview[5] = [year |-> 2024, month |-> 2, day |-> 2, hour |-> 9,
                     minute |-> 0]

\* C13: MONTHLY, for a target day the current month has: occurrence i lies
\* i + 1 months after the current month when the target day's slot of the
\* current month is at or before "now", and i months after it otherwise, for
\* every i; the 5 occurrences fall in 5 consecutive calendar months.
C13_MonthlyConsecutiveMonths ==
    [][(/\ Recomputes
        /\ config'.type = "monthly"
        /\ TimeIsValid(config'.time)
        /\ config'.dayOfMonth <= MonthLength(MonthIndexOfInstant(now))) =>
          LET first == DayOf(now) - getDate(now) + 1
              slot == SlotOn(first + config'.dayOfMonth - 1, config'.time)
              shift == IF slot <= now THEN 1 ELSE 0
          IN  /\ Len(preview') = PreviewCount
              /\ \A k \in 1..PreviewCount :
                    MonthIndex(preview'[k])
                        = MonthIndexOfInstant(now) + (k - 1) + shift]_vars

\* C14: MONTHLY, when the target day does not exist in a month being
\* computed or today's day of the month does not exist in the month reached
\* by advancing i months: the occurrence is on the last day of its month
\* (the target day when the month has it) and lies in the intended month,
\* i or i + 1 months after the current one.
C14_MonthlyClamped ==
    [][(Recomputes /\ config'.type = "monthly" /\ TimeIsValid(config'.time)) =>
          \A k \in 1..Len(preview') :
              LET e == preview'[k]
                  reached == MonthIndexOfInstant(now) + (k - 1)
              IN  (\/ config'.dayOfMonth > MonthLength(reached)
                   \/ config'.dayOfMonth > MonthLength(reached + 1)
                   \/ getDate(now) > MonthLength(reached)) =>
                     /\ MonthIndex(e) \in {reached, reached + 1}
                     /\ e.day = IF config'.dayOfMonth > MonthLength(MonthIndex(e))
                                THEN MonthLength(MonthIndex(e))
                                ELSE config'.dayOfMonth]_vars

\* minutes east of UTC
ZoneOffset(zone) == IF zone = STR_ASIA_TOKYO THEN 9 * 60 ELSE 0

\* the minutes since midnight that a clock of the given zone shows at the
\* instant t, which is counted in the runtime's zone
WallClock(t, zone) ==
    TimeWithinDay(t - ZoneOffset(localZone) + ZoneOffset(zone))

\* C15: the preview is computed in the schedule's declared time zone: read
\* in that zone every occurrence is at the configured hour:minute, and the
\* first DAILY occurrence is the first such instant after "now".
C15_PreviewInScheduleZone ==
    [][(/\ Recomputes
        /\ formData' = formData
        /\ config'.type # "none"
        /\ TimeIsValid(config'.time)) =>
          LET hm == ParseTime(config'.time)
          IN  /\ \A k \in 1..Len(preview') :
                    WallClock(Instant(preview'[k]), formData'.timezone)
                        = hm.hours * 60 + hm.minutes
              /\ config'.type = "daily" =>
                    /\ Instant(preview'[1]) > now
                    /\ Instant(preview'[1]) <= now + MinutesPerDay]_vars

\* the entries that carry a recurrence descriptor
IsRecurring(e) == "rrule" \in DOMAIN e

\* C16: the projection emits exactly one entry per fetched schedule, in
\* order; the entry carries a recurrence descriptor (frequency, decoded
\* modifiers, anchor dtstart) and no instant of its own iff the schedule is
\* enabled and has a non-empty rule, and is a single-instant entry without
\* a descriptor otherwise.
C16_OneEntryPerSchedule ==
    /\ Len(events) = Len(schedules)
    /\ \A k \in 1..Len(events) :
          LET e == events[k]
              s == schedules[k]
          IN  /\ e.id = NumberToString(s.id)
              /\ IsRecurring(e) <=> (s.enabled /\ s.rrule # EmptyString)
              /\ IsRecurring(e) =>
                    /\ {"freq", "dtstart"} \subseteq DOMAIN e.rrule
                    /\ DOMAIN e.rrule \subseteq
                           {"freq", "dtstart", "byweekday", "bymonthday"}
                    /\ "start" \notin DOMAIN e
              /\ ~IsRecurring(e) => "start" \in DOMAIN e

\* two schedules are listed, the first with a descriptor, the second, which
\* is enabled and has an empty rule, without
C16_Witness ==
    /\ ~loading
    /\ Len(events) = 2
    /\ IsRecurring(events[1])
    /\ ~IsRecurring(events[2])
    /\ schedules[2].enabled
    /\ schedules[2].rrule = EmptyString

\* C17: the entry of a disabled schedule or of a schedule without a rule is
\* placed at next_run_at when the schedule has one, and otherwise one hour
\* after the time of the projection, with '(No Schedule)' in its title.
C17_SingleEntryPlacement ==
    [][events' # events =>
          \A k \in 1..Len(events') :
              LET e == events'[k]
                  s == schedules'[k]
              IN  (~s.enabled \/ s.rrule = EmptyString) =>
                     IF s.next_run_at # Undefined
                     THEN e.start = s.next_run_at
                     ELSE /\ e.start = now' + 60
                          /\ Includes(e.title, STR_NO_SCHEDULE)]_vars

\* a disabled schedule with a rule and no next run is listed one hour after
\* the projection, next to a schedule without a rule that has a next run
C17_Witness ==
    /\ ~loading
    /\ Len(events) = 2
    /\ ~schedules[1].enabled
    /\ schedules[1].rrule # EmptyString
    /\ schedules[1].next_run_at = Undefined
    /\ events[1].start = now + 60
    /\ schedules[2].rrule = EmptyString
    /\ schedules[2].next_run_at # Undefined
    /\ events[2].start = schedules[2].next_run_at

\* the entries the calendar builds from a getSchedules response
Projection(response, nw) ==
    [k \in 1..Len(response) |-> CalendarEvent(response[k], nw)]

\* C18: building calendar entries and computing previews leaves every
\* schedule unchanged: each entry carries, field for field, the schedule the
\* store returned; a fetch does not change the store; a click on an entry
\* hands the schedule of that entry, as the store returned it, to
\* onScheduleSelect; and while the form is open a change of the selector
\* changes neither the store, nor the fetched schedules, nor the entries, nor
\* the selected schedule.
C18_SchedulesUnchanged ==
    /\ [](/\ Len(events) = Len(schedules)
          /\ \A k \in 1..Len(events) :
                events[k].extendedProps.schedule = schedules[k])
    /\ [][/\ (loading /\ ~loading' /\ schedules' # schedules) =>
                (store' = store /\ schedules' = store)
          /\ (~isFormOpen /\ isFormOpen' /\ selectedSchedule' # <<>>) =>
                /\ \E k \in 1..Len(schedules) :
                      selectedSchedule' = <<schedules[k]>>
                /\ <<store, schedules, events>>' = <<store, schedules, events>>
          /\ (isFormOpen /\ isFormOpen'
                /\ <<config, preview, rrule>>' # <<config, preview, rrule>>) =>
                <<store, schedules, events, selectedSchedule>>'
                    = <<store, schedules, events, selectedSchedule>>]_vars

\* a stored schedule without a next run was clicked and is being edited in
\* the form, where the selector shows a preview
C18_Witness ==
    /\ isFormOpen
    /\ ~loading
    /\ selectedSchedule # <<>>
    /\ preview # <<>>
    /\ \E k \in 1..Len(store) :
          /\ selectedSchedule[1] = store[k]
          /\ events[k].extendedProps.schedule = store[k]
          /\ store[k].next_run_at = Undefined
          /\ store[k].rrule # EmptyString

\* the payloads of the create and update calls in flight carry timezone and
\* enabled, the rule when there is one, and no next run
PayloadsLeaveNextRunToStore ==
    \A i \in 1..Len(pending) :
        pending[i].kind # "delete" =>
            /\ {"timezone", "enabled"} \subseteq DOMAIN pending[i].payload
            /\ DOMAIN pending[i].payload \subseteq
                   {"name", "task_type", "rrule", "timezone", "enabled"}

CallsFor(calls, rule) == {i \in 1..Len(calls) : calls[i].rrule = rule}

\* C20: when a preview request fails, the preview becomes invalid; when
\* the store refused the rule, in the body of its response or by an error
\* status, the preview carries the store's message for that rule; and while
\* the preview shows the store's refusal of the current rule, no step that
\* leaves the rule as it is issues another preview request for it.
C20_FailedPreviewCarriesStoreMessage ==
    [][/\ \A i \in 1..Len(previewCalls) :
             previewCalls' = RemoveAt(previewCalls, i) =>
                /\ (previewCalls[i].response = "none"
                      \/ ~StoreAccepts(previewCalls[i].rrule)) =>
                       /\ storePreview' # <<>>
                       /\ ~storePreview'[1].is_valid
                /\ (previewCalls[i].response # "none"
                      /\ ~StoreAccepts(previewCalls[i].rrule)) =>
                       storePreview' =
                           <<[is_valid |-> FALSE,
                              error_message |->
                                  StoreMessage(previewCalls[i].rrule)]>>
       /\ (/\ value' = value
           /\ storePreview = <<StoreAnswer(value)>>
           /\ ~StoreAccepts(value)) =>
             Cardinality(CallsFor(previewCalls', value))
                 <= Cardinality(CallsFor(previewCalls, value))]_vars

\* C21: in every reachable state of the selector, dayOfWeek is defined if
\* and only if the type is weekly, and dayOfMonth is defined if and only if
\* the type is monthly; type none carries neither.
C21_AnchorsMatchKind ==
    /\ (config.dayOfWeek # Undefined) <=> (config.type = "weekly")
    /\ (config.dayOfMonth # Undefined) <=> (config.type = "monthly")
    /\ config.dayOfWeek # Undefined => config.dayOfWeek \in 0..6
    /\ config.dayOfMonth # Undefined => config.dayOfMonth \in 1..31

\* a weekly selector whose day was picked in the select, away from the day
\* the form was opened on, after the clock has moved
C21_Witness ==
    /\ config.type = "weekly"
    /\ config.dayOfWeek # getDay(startDate)
    /\ config.dayOfWeek \in 0..6
    /\ config.dayOfMonth = Undefined
    /\ now > startDate

\* C22: whenever the schedule form is open, the rule held in the form (the
\* rule a save sends) is the encoding of the config the selector shows; a
\* form opened for a stored schedule with a rule therefore shows the config
\* decoded from that rule and not the initial 'none'.
C22_FormRuleEncodesSelector ==
    isFormOpen => rrule = generateRRule(config, startDate, now).rrule

\* C23: the preview the selector shows is never stale: in every state, under
\* any interleaving of config changes and the passage of time, the shown
\* occurrences are the ones computed for the current config at the current
\* "now", and none of them is at or before the current time.
C23_PreviewNeverStale ==
    /\ preview = generateRRule(config, startDate, now).preview
    /\ (config.type # "none" /\ TimeIsValid(config.time)) =>
          \A k \in 1..Len(preview) : Instant(preview[k]) > now

\* C24: WEEKDAYS: for every index 0..4, every weekday of "now" and both
\* slot-passed cases, the day-skipping loop ends, and the candidate date is
\* moved forward by at most 7 day steps for that occurrence.
C24_WeekdaysLoopBounded ==
    config.type = "weekdays" =>
        \A i \in 0..(PreviewCount - 1) :
            WeekdaysDaySteps(ParseTime(config.time).hours,
                             ParseTime(config.time).minutes, now, i) \in 0..7

\* Thursday 25 January 09:01, slot 09:00: the fifth occurrence takes the step
\* to Friday and six steps of the loop, and is Thursday 1 February
C24_Witness ==
    /\ config.type = "weekdays"
    /\ config.time = <<"0", "9", ":", "0", "0">>
    /\ now = FirstNowDay * MinutesPerDay + 9 * 60 + 1
    /\ getDay(now) = 4
    /\ WeekdaysDaySteps(9, 0, now, 4) = 7
    /\ Len(preview) = PreviewCount
    /\ preview[5] = [year |-> 2024, month |-> 2, day |-> 1, hour |-> 9,
                     minute |-> 0]

\* C25: when the time of a repeating config does not parse into an hour
\* 0..23 and a minute 0..59 (the time input was cleared), the selector shows
\* no occurrences and hands no rule to the form.
C25_UnparsedTimeGivesNothing ==
    (config.type # "none" /\ ~TimeIsValid(config.time)) =>
        /\ preview = <<>>
        /\ rrule = EmptyString

\* C26: in RecurrenceSelector, whenever no preview request is in flight, the
\* preview shown is null when the current value is empty or blank, and
\* otherwise the store's answer for the current value (or the preview of the
\* catch block when the request for it failed): a late response to an
\* earlier value does not replace it, and a value changed to empty clears
\* the preview shown before.
C26_PreviewMatchesValue ==
    previewCalls = <<>> =>
        IF Truthy(Trim(value))
        THEN storePreview \in {<<StoreAnswer(value)>>, CaughtPreview}
        ELSE storePreview = <<>>

EditedId == IF selectedSchedule = <<>> THEN Undefined ELSE selectedSchedule[1].id

\* C28: on the scheduler page, an open form is closed, and its selected
\* schedule cleared, only by the user's cancel or by the completion of a
\* call that was submitted for the schedule the form is editing: the late
\* completion of a call submitted before a cancel does not close the form
\* opened afterwards for another schedule.
C28_FormClosedOnlyByOwnCompletion ==
    [][(isFormOpen /\ ~isFormOpen') =>
          \/ pending' = pending
          \/ /\ pending # <<>>
             /\ pending' = Tail(pending)
             /\ Head(pending).id = EditedId]_vars

\* the file a text was loaded from, by the character the file starts with
LoadedFrom(text) ==
    IF text = EmptyString THEN "none"
    ELSE IF Head(text) = Head(STR_CONFIG_YAML) THEN "yaml"
    ELSE IF Head(text) = Head(STR_TOPOLOGY_REQUEST) THEN "topology"
    ELSE "none"

\* C29: in the config editor, Save never sends to the endpoint of one tab a
\* content that was loaded from the file of the other tab, under any
\* interleaving of tab switches, fetch completions, edits and saves.
C29_SaveSendsOwnFile ==
    \A i \in 1..Len(configCalls) :
        configCalls[i].kind = "post" =>
            LoadedFrom(configCalls[i].content)
                \in {"none", configCalls[i].endpoint}

\* C30: in useEnvironmentInfo, loading is true while a fetch is in flight;
\* once every fetch has settled, loading is false and the state reflects
\* the fetch that was started last: environmentInfo is its response when it
\* succeeded, and error is non-null if and only if it failed.
C30_StateReflectsLastFetch ==
    LET n == Len(environmentCalls)
        settled == \A k \in 1..n : environmentCalls[k] # "inflight"
    IN  /\ ~settled => environment.loading
        /\ (n > 0 /\ settled) =>
              /\ ~environment.loading
              /\ environmentCalls[n] = "resolved" =>
                    environment.environmentInfo = <<EnvironmentResponse(n)>>
              /\ (environment.error # <<>>)
                    <=> (environmentCalls[n] = "rejected")

====
